---- MODULE Spec2Model ----
(***************************************************************************)
(* Model of opentimelineio/media_linker.py: media linker resolution        *)
(* (from_name), the strict default query (default_media_linker), the       *)
(* top-level entry point (linked_media_reference) and the MediaLinker      *)
(* plugin class (link_media_reference, is_default_linker,                  *)
(* plugin_info_map).                                                       *)
(*                                                                         *)
(* Python values are tagged records.  A call is modelled by the completion *)
(* it produces: it returns a value or raises an exception, and it carries  *)
(* the trace of the calls it made on its collaborators (the active plugin  *)
(* manifest and the plugin modules).                                       *)
(***************************************************************************)
EXTENDS Integers, Sequences, FiniteSets, TLC

VARIABLES
    environ,        \* os.environ, as a set of <<key, value>> pairs
    media_linkers,  \* plugins.ActiveManifest().media_linkers
    last            \* the last call made on the module and its completion

vars == <<environ, media_linkers, last>>

-----------------------------------------------------------------------------
(* Bounds *)

NumClips == 2

-----------------------------------------------------------------------------
(* Python values *)

PyNone == [type |-> "NoneType"]
PyStr(s) == [type |-> "str", s |-> s]
PyBool(b) == [type |-> "bool", b |-> b]
PyDict(items) == [type |-> "dict", items |-> items]
PyList(elems) == [type |-> "list", elems |-> elems]
Omitted == [type |-> "omitted"]

\* Python truth value testing, as used by `not x` and `x or y`.
Truthy(v) ==
    CASE v.type = "NoneType" -> FALSE
      [] v.type = "str" -> v.s # ""
      [] v.type = "dict" -> v.items # {}
      [] v.type = "list" -> v.elems # <<>>
      [] v.type = "bool" -> v.b
      [] OTHER -> TRUE

\* The value bound to a parameter: the argument, or the parameter's default.
Arg(a, default) == IF a = Omitted THEN default ELSE a

\* str(x) for the values a plugin name can hold.
str(v) == IF v.type = "NoneType" THEN "None" ELSE v.s

RECURSIVE JoinStrs(_, _)
\* sep.join(parts) for a sequence of strings.
JoinStrs(sep, parts) ==
    IF parts = <<>> THEN ""
    ELSE IF Len(parts) = 1 THEN parts[1]
    ELSE parts[1] \o sep \o JoinStrs(sep, Tail(parts))

\* repr of a list of str, as "{}".format(list) prints it.
ListRepr(names) ==
    "[" \o JoinStrs(", ", [i \in 1..Len(names) |-> "'" \o names[i] \o "'"]) \o "]"

\* d[key] for a dict that holds key.
DictGet(d, key) == (CHOOSE p \in d.items : p[1] = key)[2]

\* d[key] = value
DictSet(d, key, value) ==
    PyDict({p \in d.items : p[1] # key} \cup {<<key, value>>})

-----------------------------------------------------------------------------
(* Completions *)

Return(v, t) == [kind |-> "return", value |-> v, trace |-> t]
Raise(e, t) == [kind |-> "raise", value |-> e, trace |-> t]
Exception(type, msg) == [type |-> type, args |-> msg]

-----------------------------------------------------------------------------
(* Program constants *)

DoNotLinkMedia == "__do_not_link_media"
ForceDefaultLinker == "__default"
OTIO_DEFAULT_MEDIA_LINKER == "OTIO_DEFAULT_MEDIA_LINKER"

-----------------------------------------------------------------------------
(* The domain of the model *)

LinkerNames == {"studio-v1", "shot-db"}

\* What a plugin module's link_media_reference entry point does when called.
Behaviours ==
    {"links", "returns_non_reference", "raises_CannotLinkMediaError",
     "raises_other"}

MediaLinker(name, behaviour) ==
    [type |-> "MediaLinker", name |-> PyStr(name), module |-> behaviour]

Clip(i) == [type |-> "Clip", id |-> i]
Clips == {Clip(i) : i \in 1..NumClips}

ArgumentMaps ==
    {PyDict({}), PyDict({<<"root", PyStr("/mnt/media")>>})}

NameArguments ==
    {Omitted, PyNone, PyStr(""), PyStr(ForceDefaultLinker), PyStr(DoNotLinkMedia)}
        \cup {PyStr(n) : n \in LinkerNames}

EnvironValues == {"", ForceDefaultLinker, DoNotLinkMedia} \cup LinkerNames

\* What inspect.getdoc can yield for a plugin module or its entry point.
ModuleDocs == {PyNone, PyStr(""), PyStr("Links studio media.")}
FunctionDocs == {PyNone, PyStr(""), PyStr("Resolve the clip.")}

\* Sequences of descriptors with pairwise distinct names.
Registries ==
    LET Seqs == UNION {[1..k -> LinkerNames \X Behaviours] :
                         k \in 0..Cardinality(LinkerNames)}
    IN {[i \in DOMAIN s |-> MediaLinker(s[i][1], s[i][2])] :
          s \in {q \in Seqs : \A i, j \in DOMAIN q : q[i][1] = q[j][1] => i = j}}

-----------------------------------------------------------------------------
(* Collaborators *)

\* os.environ.get(key, default)
environ_get(key, default) ==
    IF \E p \in environ : p[1] = key
    THEN PyStr((CHOOSE p \in environ : p[1] = key)[2])
    ELSE default

\* plugins.ActiveManifest().from_name(name, kind_list="media_linkers")
ManifestFromName(name) ==
    LET ev == [ev |-> "ActiveManifest.from_name", name |-> name,
               kind_list |-> "media_linkers"]
        hits == {i \in DOMAIN media_linkers : media_linkers[i].name = name}
    IN IF hits # {}
       THEN Return(media_linkers[CHOOSE i \in hits : \A j \in hits : i <= j], <<ev>>)
       ELSE Raise(Exception("NotSupportedError", "plugin not found"), <<ev>>)

\* PythonPlugin._execute_function(func_name, **kwargs): calls the entry point
\* of the plugin's module.
execute_function(self, func_name, in_clip, media_linker_argument_map) ==
    LET ev == [ev |-> "_execute_function", self |-> self, func |-> func_name,
               in_clip |-> in_clip,
               media_linker_argument_map |-> media_linker_argument_map]
    IN CASE self.module = "links" ->
              Return([type |-> "MediaReference", linked_by |-> self.name,
                      clip |-> in_clip, args |-> media_linker_argument_map], <<ev>>)
         [] self.module = "returns_non_reference" ->
              Return(PyStr("/not/a/media/reference"), <<ev>>)
         [] self.module = "raises_CannotLinkMediaError" ->
              Raise([type |-> "CannotLinkMediaError", args |-> "cannot link",
                     raised_by |-> self.name, clip |-> in_clip], <<ev>>)
         [] OTHER ->
              Raise([type |-> "ImportError", args |-> "plugin module unreachable",
                     raised_by |-> self.name, clip |-> in_clip], <<ev>>)

\* PythonPlugin.plugin_info_map(): the descriptor's own entries; 'doc' is the
\* documentation of the plugin's module.
super_plugin_info_map(self, module_doc) ==
    PyDict({<<"name", self.name>>, <<"doc", module_doc>>})

-----------------------------------------------------------------------------
(* media_linker.py *)

available_media_linker_names ==
    Return(PyList([i \in DOMAIN media_linkers |-> str(media_linkers[i].name)]),
           <<[ev |-> "ActiveManifest.media_linkers"]>>)

default_media_linker ==
    IF \E p \in environ : p[1] = OTIO_DEFAULT_MEDIA_LINKER
    THEN Return(PyStr((CHOOSE p \in environ : p[1] = OTIO_DEFAULT_MEDIA_LINKER)[2]),
                <<>>)
    ELSE Raise(Exception("NoDefaultMediaLinkerError",
                   "No default Media Linker set in $OTIO_DEFAULT_MEDIA_LINKER"),
               <<>>)

\* from_name with the strict accessor in place of the permissive
\* os.environ.get: an unset default raises instead of yielding None.
from_name_strict_default(name) ==
    LET substituted == name = PyStr(ForceDefaultLinker) \/ ~Truthy(name)
    IN IF substituted /\ default_media_linker.kind = "raise"
       THEN default_media_linker
       ELSE LET name1 == IF substituted THEN default_media_linker.value ELSE name
            IN IF ~Truthy(name1) THEN Return(PyNone, <<>>)
               ELSE LET found == ManifestFromName(name1)
                    IN IF found.kind = "raise"
                       THEN Raise(Exception("NotSupportedError",
                                      "media linker not supported: " \o str(name1)
                                         \o ", available: "
                                         \o ListRepr(available_media_linker_names.value.elems)),
                                  found.trace \o available_media_linker_names.trace)
                       ELSE found

\* from_name without the except clause: the manifest's own error propagates,
\* without the requested name and the available names.
from_name_unenriched(name) ==
    LET name1 == IF name = PyStr(ForceDefaultLinker) \/ ~Truthy(name)
                 THEN environ_get(OTIO_DEFAULT_MEDIA_LINKER, PyNone)
                 ELSE name
    IN IF ~Truthy(name1) THEN Return(PyNone, <<>>) ELSE ManifestFromName(name1)

\* from_name substituting the default for ForceDefaultLinker only, not for an
\* empty or None name.
from_name_sentinel_only(name) ==
    LET name1 == IF name = PyStr(ForceDefaultLinker)
                 THEN environ_get(OTIO_DEFAULT_MEDIA_LINKER, PyNone)
                 ELSE name
    IN IF ~Truthy(name1) THEN Return(PyNone, <<>>)
       ELSE LET found == ManifestFromName(name1)
            IN IF found.kind = "raise"
               THEN Raise(Exception("NotSupportedError",
                              "media linker not supported: " \o str(name1)
                                 \o ", available: "
                                 \o ListRepr(available_media_linker_names.value.elems)),
                          found.trace \o available_media_linker_names.trace)
               ELSE found

\* from_name giving None when the environment default names no registered
\* linker, instead of raising.
from_name_lenient_default(name) ==
    LET substituted == name = PyStr(ForceDefaultLinker) \/ ~Truthy(name)
        name1 == IF substituted
                 THEN environ_get(OTIO_DEFAULT_MEDIA_LINKER, PyNone)
                 ELSE name
    IN IF ~Truthy(name1) THEN Return(PyNone, <<>>)
       ELSE LET found == ManifestFromName(name1)
            IN IF found.kind = "raise"
               THEN IF substituted
                    THEN Return(PyNone, found.trace)
                    ELSE Raise(Exception("NotSupportedError",
                                   "media linker not supported: " \o str(name1)
                                      \o ", available: "
                                      \o ListRepr(available_media_linker_names.value.elems)),
                               found.trace \o available_media_linker_names.trace)
               ELSE found

from_name(name) ==
    LET name1 == IF name = PyStr(ForceDefaultLinker) \/ ~Truthy(name)
                 THEN environ_get(OTIO_DEFAULT_MEDIA_LINKER, PyNone)
                 ELSE name
    IN IF ~Truthy(name1) THEN Return(PyNone, <<>>)
       ELSE LET found == ManifestFromName(name1)
            IN IF found.kind = "raise" /\ found.value.type = "NotSupportedError"
               THEN LET available == available_media_linker_names
                    IN Raise(Exception("NotSupportedError",
                                 "media linker not supported: " \o str(name1)
                                    \o ", available: "
                                    \o ListRepr(available.value.elems)),
                             found.trace \o available.trace)
               ELSE found

link_media_reference(self, in_clip, media_linker_argument_map) ==
    LET map1 == IF Truthy(Arg(media_linker_argument_map, PyNone))
                THEN media_linker_argument_map
                ELSE PyDict({})
    IN execute_function(self, "link_media_reference", in_clip, map1)

\* linked_media_reference leaving the argument map unconnected: the linker is
\* always called with an empty map.
linked_media_reference_drops_map(target_clip, media_linker_name, media_linker_argument_map) ==
    LET media_linker == from_name(Arg(media_linker_name, PyStr(ForceDefaultLinker)))
    IN IF media_linker.kind = "raise" THEN media_linker
       ELSE IF ~Truthy(media_linker.value)
       THEN Return(target_clip, media_linker.trace)
       ELSE LET linked == link_media_reference(media_linker.value, target_clip,
                                               PyDict({}))
            IN [linked EXCEPT !.trace = media_linker.trace \o @]

\* linked_media_reference catching CannotLinkMediaError around the linker call
\* and giving the clip back.
linked_media_reference_swallows(target_clip, media_linker_name, media_linker_argument_map) ==
    LET media_linker == from_name(Arg(media_linker_name, PyStr(ForceDefaultLinker)))
    IN IF media_linker.kind = "raise" THEN media_linker
       ELSE IF ~Truthy(media_linker.value)
       THEN Return(target_clip, media_linker.trace)
       ELSE LET map1 == IF ~Truthy(Arg(media_linker_argument_map, PyNone))
                        THEN PyDict({})
                        ELSE media_linker_argument_map
                linked == link_media_reference(media_linker.value, target_clip, map1)
            IN IF linked.kind = "raise" /\ linked.value.type = "CannotLinkMediaError"
               THEN Return(target_clip, media_linker.trace \o linked.trace)
               ELSE [linked EXCEPT !.trace = media_linker.trace \o @]

linked_media_reference(target_clip, media_linker_name, media_linker_argument_map) ==
    LET media_linker == from_name(Arg(media_linker_name, PyStr(ForceDefaultLinker)))
    IN IF media_linker.kind = "raise" THEN media_linker
       ELSE IF ~Truthy(media_linker.value)
       THEN Return(target_clip, media_linker.trace)
       ELSE LET map1 == IF ~Truthy(Arg(media_linker_argument_map, PyNone))
                        THEN PyDict({})
                        ELSE media_linker_argument_map
                linked == link_media_reference(media_linker.value, target_clip, map1)
            IN [linked EXCEPT !.trace = media_linker.trace \o @]

is_default_linker(self) ==
    environ_get(OTIO_DEFAULT_MEDIA_LINKER, PyStr("")) = self.name

\* module_doc and fn_doc are what inspect.getdoc yields for the plugin's
\* module (in the parent's map) and for its link_media_reference entry point.
plugin_info_map(self, module_doc, fn_doc) ==
    LET result == super_plugin_info_map(self, module_doc)
        mod_doc == <<DictGet(result, "doc"), PyStr(""), fn_doc>>
        flagged(r) == IF is_default_linker(self)
                      THEN DictSet(r, "** CURRENT DEFAULT MEDIA LINKER", PyBool(TRUE))
                      ELSE r
    IN IF Truthy(fn_doc)
       THEN IF \E i \in DOMAIN mod_doc : mod_doc[i].type # "str"
            THEN Raise(Exception("TypeError",
                           "sequence item 0: expected str instance, NoneType found"),
                       <<>>)
            ELSE Return(flagged(DictSet(result, "doc",
                            PyStr(JoinStrs("\n", [i \in DOMAIN mod_doc |-> mod_doc[i].s])))),
                        <<>>)
       ELSE Return(flagged(result), <<>>)

-----------------------------------------------------------------------------
(* Specification *)

Init ==
    /\ environ \in {{}} \cup
                   {{<<OTIO_DEFAULT_MEDIA_LINKER, v>>} : v \in EnvironValues}
    /\ media_linkers \in Registries
    /\ last = [op |-> "none"]

LinkedMediaReference ==
    \E c \in Clips, n \in NameArguments,
       m \in ArgumentMaps \cup {Omitted, PyNone} :
        /\ last' = [op |-> "linked_media_reference", target_clip |-> c,
                    media_linker_name |-> n, media_linker_argument_map |-> m,
                    result |-> linked_media_reference(c, n, m)]
        /\ UNCHANGED <<environ, media_linkers>>

FromName ==
    \E n \in NameArguments \ {Omitted} :
        /\ last' = [op |-> "from_name", name |-> n, result |-> from_name(n)]
        /\ UNCHANGED <<environ, media_linkers>>

DefaultMediaLinker ==
    /\ last' = [op |-> "default_media_linker", result |-> default_media_linker]
    /\ UNCHANGED <<environ, media_linkers>>

AvailableMediaLinkerNames ==
    /\ last' = [op |-> "available_media_linker_names",
                result |-> available_media_linker_names]
    /\ UNCHANGED <<environ, media_linkers>>

LinkMediaReference ==
    \E i \in DOMAIN media_linkers, c \in Clips,
       m \in ArgumentMaps \cup {Omitted, PyNone} :
        /\ last' = [op |-> "MediaLinker.link_media_reference",
                    self |-> media_linkers[i], in_clip |-> c,
                    media_linker_argument_map |-> m,
                    result |-> link_media_reference(media_linkers[i], c, m)]
        /\ UNCHANGED <<environ, media_linkers>>

IsDefaultLinker ==
    \E i \in DOMAIN media_linkers :
        /\ last' = [op |-> "MediaLinker.is_default_linker",
                    self |-> media_linkers[i],
                    result |-> Return(PyBool(is_default_linker(media_linkers[i])), <<>>)]
        /\ UNCHANGED <<environ, media_linkers>>

PluginInfoMap ==
    \E i \in DOMAIN media_linkers, d \in ModuleDocs, f \in FunctionDocs :
        /\ last' = [op |-> "MediaLinker.plugin_info_map",
                    self |-> media_linkers[i], module_doc |-> d, fn_doc |-> f,
                    result |-> plugin_info_map(media_linkers[i], d, f)]
        /\ UNCHANGED <<environ, media_linkers>>

Next ==
    \/ LinkedMediaReference
    \/ FromName
    \/ DefaultMediaLinker
    \/ AvailableMediaLinkerNames
    \/ LinkMediaReference
    \/ IsDefaultLinker
    \/ PluginInfoMap

Spec == Init /\ [][Next]_vars

-----------------------------------------------------------------------------
(* Vocabulary of the properties *)

IsLinkedMediaReference == last.op = "linked_media_reference"

\* The name and the argument map the last linked_media_reference call ran with.
RequestedName == Arg(last.media_linker_name, PyStr(ForceDefaultLinker))
PassedMap ==
    IF last.media_linker_argument_map \in {Omitted, PyNone}
    THEN PyDict({})
    ELSE last.media_linker_argument_map

DefaultRequested == RequestedName \in {PyStr(ForceDefaultLinker), PyStr(""), PyNone}

EnvironUnset == ~ \E p \in environ : p[1] = OTIO_DEFAULT_MEDIA_LINKER
EnvironIs(v) == <<OTIO_DEFAULT_MEDIA_LINKER, v>> \in environ

Registered(n) == \E i \in DOMAIN media_linkers : media_linkers[i].name = PyStr(n)
DescriptorOf(n) ==
    media_linkers[CHOOSE i \in DOMAIN media_linkers : media_linkers[i].name = PyStr(n)]

\* The registry lookups and the plugin invocations a completion's trace holds.
Lookups(r) == SelectSeq(r.trace, LAMBDA e : e.ev = "ActiveManifest.from_name")
Invocations(r) == SelectSeq(r.trace, LAMBDA e : e.ev = "_execute_function")

\* The invocation of descriptor d's link entry point with (c, m).
Invocation(d, c, m) ==
    [ev |-> "_execute_function", self |-> d, func |-> "link_media_reference",
     in_clip |-> c, media_linker_argument_map |-> m]

\* What the plugin answered to an invocation found in a trace.
Answer(e) ==
    execute_function(e.self, e.func, e.in_clip, e.media_linker_argument_map)

SameOutcome(r, q) == r.kind = q.kind /\ r.value = q.value

UnsupportedMessage(n) ==
    "media linker not supported: " \o n \o ", available: "
        \o ListRepr(available_media_linker_names.value.elems)

-----------------------------------------------------------------------------
(* C1: linked_media_reference(c, DoNotLinkMedia, {}) returns c itself, with  *)
(* no registry lookup, no plugin invocation and no error, whatever the       *)
(* registry and the environment default are.                                 *)
C1_DoNotLinkReturnsClip ==
    (/\ IsLinkedMediaReference
     /\ RequestedName = PyStr(DoNotLinkMedia)
     /\ last.media_linker_argument_map = PyDict({}))
        => last.result = Return(last.target_clip, <<>>)

(* C2: when the requested name is ForceDefaultLinker, empty or absent and    *)
(* the environment default is unset or empty, the clip is returned as a      *)
(* normal outcome: no lookup, no invocation, no error.                       *)
C2_NoDefaultReturnsClip ==
    (/\ IsLinkedMediaReference
     /\ DefaultRequested
     /\ EnvironUnset \/ EnvironIs(""))
        => last.result = Return(last.target_clip, <<>>)

C2_Witness ==
    /\ IsLinkedMediaReference
    /\ last.media_linker_name = Omitted
    /\ EnvironUnset
    /\ media_linkers # <<>>
    /\ last.result.kind = "return"

C4_UnregisteredNameUnsupported ==
    \A n \in LinkerNames :
        (/\ IsLinkedMediaReference
         /\ RequestedName = PyStr(n)
         /\ ~Registered(n)
         /\ last.media_linker_argument_map = PyDict({}))
            => /\ last.result.kind = "raise"
               /\ last.result.value
                    = Exception("NotSupportedError", UnsupportedMessage(n))
               /\ Invocations(last.result) = <<>>

C4_Witness ==
    /\ IsLinkedMediaReference
    /\ RequestedName = PyStr("shot-db")
    /\ ~Registered("shot-db")
    /\ Registered("studio-v1")
    /\ last.media_linker_argument_map = PyDict({})
    /\ last.result.kind = "raise"
    /\ last.result.value.args
         = "media linker not supported: shot-db, available: ['studio-v1']"

C4_WitnessEmptyRegistry ==
    /\ IsLinkedMediaReference
    /\ RequestedName = PyStr("shot-db")
    /\ media_linkers = <<>>
    /\ last.result.kind = "raise"
    /\ last.result.value.args = "media linker not supported: shot-db, available: []"

(* C5: default_media_linker() raises NoDefaultMediaLinkerError exactly when  *)
(* the environment default is absent, a variable set to the empty string     *)
(* counting as absent; any other value is returned unchanged.                *)
C5_StrictDefaultEmptyIsAbsent ==
    last.op = "default_media_linker"
        => IF EnvironUnset \/ EnvironIs("")
           THEN /\ last.result.kind = "raise"
                /\ last.result.value.type = "NoDefaultMediaLinkerError"
           ELSE /\ last.result.kind = "return"
                /\ EnvironIs(last.result.value.s)

(* C6: when the environment default holds a registered linker name d, a call *)
(* with name ForceDefaultLinker, empty or absent gives the outcome of the    *)
(* call with name d: d's descriptor is invoked once with (c, args) and its   *)
(* result is returned.                                                       *)
C6_DefaultResolvesToEnviron ==
    \A d \in LinkerNames :
        (/\ IsLinkedMediaReference
         /\ DefaultRequested
         /\ EnvironIs(d)
         /\ Registered(d))
            => /\ last.result
                    = linked_media_reference(last.target_clip, PyStr(d),
                                             last.media_linker_argument_map)
               /\ Invocations(last.result)
                    = <<Invocation(DescriptorOf(d), last.target_clip, PassedMap)>>
               /\ SameOutcome(last.result, Answer(Invocations(last.result)[1]))

C6_Witness ==
    /\ IsLinkedMediaReference
    /\ last.media_linker_name = PyStr("")
    /\ EnvironIs("studio-v1")
    /\ Registered("studio-v1")
    /\ last.result.kind = "return"
    /\ last.result.value.type = "MediaReference"
    /\ last.result.value.linked_by = PyStr("studio-v1")

(* C7: a CannotLinkMediaError raised by the invoked plugin is the outcome of *)
(* linked_media_reference, as the plugin raised it; the plugin is not        *)
(* invoked again; and every CannotLinkMediaError outcome comes from a plugin *)
(* invocation of that call.                                                  *)
C7_CannotLinkPropagates ==
    IsLinkedMediaReference
        => /\ Len(Invocations(last.result)) <= 1
           /\ \A i \in DOMAIN Invocations(last.result) :
                LET answer == Answer(Invocations(last.result)[i])
                IN (answer.kind = "raise"
                      /\ answer.value.type = "CannotLinkMediaError")
                       => SameOutcome(last.result, answer)
           /\ (last.result.kind = "raise"
                 /\ last.result.value.type = "CannotLinkMediaError")
                => /\ Invocations(last.result) # <<>>
                   /\ SameOutcome(last.result, Answer(Invocations(last.result)[1]))

C7_Witness ==
    /\ IsLinkedMediaReference
    /\ last.result.kind = "raise"
    /\ last.result.value.type = "CannotLinkMediaError"
    /\ Len(Invocations(last.result)) = 1

(* C8: when the plugin's link entry point returns a value that is not a      *)
(* media reference, the call fails; linked_media_reference never returns     *)
(* such a value as a successful link.                                        *)
C8_NonReferenceRejected ==
    IsLinkedMediaReference
        => \A i \in DOMAIN Invocations(last.result) :
             LET answer == Answer(Invocations(last.result)[i])
             IN (answer.kind = "return" /\ answer.value.type # "MediaReference")
                  => /\ last.result.kind = "raise"
                     /\ last.result.value.type
                          \notin {"NotSupportedError", "CannotLinkMediaError",
                                  "NoDefaultMediaLinkerError"}

(* C9: plugin_info_map() gives a 'doc' made of the descriptor's              *)
(* documentation, a blank line and the entry point's documentation when both *)
(* are present and non-empty, of the descriptor's documentation alone when   *)
(* the entry point's is absent or empty, and of the entry point's alone when *)
(* the descriptor's is absent or empty: never a leading or trailing          *)
(* separator.                                                                *)
DocPresent(d) == d.type = "str" /\ d.s # ""

C9_DocMergedWithoutSpuriousSeparator ==
    last.op = "MediaLinker.plugin_info_map"
        => /\ last.result.kind = "return"
           /\ DictGet(last.result.value, "doc")
                = IF DocPresent(last.module_doc) /\ DocPresent(last.fn_doc)
                  THEN PyStr(last.module_doc.s \o "\n\n" \o last.fn_doc.s)
                  ELSE IF ~DocPresent(last.fn_doc)
                  THEN last.module_doc
                  ELSE last.fn_doc

(* C10: when the environment default holds a non-empty value that is not a   *)
(* registered linker name, a call with name ForceDefaultLinker, empty or     *)
(* absent raises NotSupportedError naming the environment value and the      *)
(* available names, and invokes no plugin: the clip is not returned.         *)
C10_UnregisteredDefaultUnsupported ==
    \A e \in EnvironValues \ {""} :
        (/\ IsLinkedMediaReference
         /\ DefaultRequested
         /\ EnvironIs(e)
         /\ ~Registered(e))
            => /\ last.result.kind = "raise"
               /\ last.result.value
                    = Exception("NotSupportedError", UnsupportedMessage(e))
               /\ Invocations(last.result) = <<>>

C10_Witness ==
    /\ IsLinkedMediaReference
    /\ last.media_linker_name = Omitted
    /\ EnvironIs("shot-db")
    /\ ~Registered("shot-db")
    /\ Registered("studio-v1")
    /\ last.result.kind = "raise"
    /\ last.result.value.args
         = "media linker not supported: shot-db, available: ['studio-v1']"

====
